---- MODULE Spec2Model ----
(***************************************************************************)
(* A model of mistocr: the page-range parser (cli.py), the three result   *)
(* formatters (formatter.py) and the command's control flow (cli.py main, *)
(* api.py process_document, config.py ensure_api_key).                    *)
(*                                                                         *)
(* A Python str is a sequence of one-character strings; None is the       *)
(* value None; a raised exception is a record naming its class.           *)
(***************************************************************************)
EXTENDS Integers, Sequences, FiniteSets, TLC

VARIABLES
  pc,              \* position of the caller: "call" before the call, "done" after it
  pages_str,       \* the --pages string
  parsed,          \* what parse_pages did: its return value or the exception raised
  op,              \* the formatter called
  ocr_response,    \* the result dict given to the formatter
  include_images,  \* the include_images argument
  output_dir,      \* the output_dir argument, None when absent
  output_path,     \* the output_path argument of format_as_pdf
  fs,              \* the file system
  fs_at_call,      \* the file system as it was when the formatter was called
  formatted,       \* what the formatter did: the string returned or the exception
  creds,           \* MISTRAL_API_KEY, the keyring entry, the key typed at the prompt
  api_key,         \* main's api_key
  format,          \* the --format option
  output,          \* the --output option, None when absent
  remote,          \* how the service answers the upload and the OCR request
  net,             \* the requests sent so far
  stdout,          \* the messages printed to standard output
  stderr,          \* the messages printed to standard error
  exit_code,       \* the exit status of the process, Running until it ends
  fatal            \* the condition that ended the run early, "" when none did

vars == <<pc, pages_str, parsed, op, ocr_response, include_images, output_dir,
          output_path, fs, fs_at_call, formatted, creds, api_key, format, output,
          remote, net, stdout, stderr, exit_code, fatal>>

\* the variables of the command, which a direct call of parse_pages or of a
\* formatter leaves alone
mainVars == <<creds, api_key, format, output, remote, net, stdout, stderr, exit_code,
              fatal>>

(***************************************************************************)
(* Bounds and input alphabets                                              *)
(***************************************************************************)
\* longest page string given to parse_pages
MaxLen == 5

\* most pages in a result given to a formatter
MaxPages == 2

\* the characters page strings are made of
PageChars == {"0", "1", ",", "-", " ", "a"}

\* exit_code while the process runs
Running == 0 - 1

\* None where a str is expected: no str has a four-character element
None == <<"None">>

RECURSIVE SeqsUpTo(_, _)
SeqsUpTo(S, n) ==
  IF n = 0 THEN {<<>>}
  ELSE LET shorter == SeqsUpTo(S, n - 1)
       IN shorter \cup {Append(s, c) : s \in {t \in shorter : Len(t) = n - 1}, c \in S}

(***************************************************************************)
(* Python built-ins used by parse_pages                                    *)
(***************************************************************************)
Digits == {"0", "1", "2", "3", "4", "5", "6", "7", "8", "9"}

DigitVal(c) ==
  CASE c = "0" -> 0 [] c = "1" -> 1 [] c = "2" -> 2 [] c = "3" -> 3 [] c = "4" -> 4
    [] c = "5" -> 5 [] c = "6" -> 6 [] c = "7" -> 7 [] c = "8" -> 8 [] c = "9" -> 9

\* str.find: position of the first c in s, 0 when there is none
find(s, c) ==
  IF \E i \in 1..Len(s) : s[i] = c
  THEN CHOOSE i \in 1..Len(s) : s[i] = c /\ \A j \in 1..(i - 1) : s[j] # c
  ELSE 0

\* str.split(c): every occurrence of c separates two fields
RECURSIVE split(_, _)
split(s, c) ==
  LET i == find(s, c)
  IN IF i = 0 THEN <<s>>
     ELSE <<SubSeq(s, 1, i - 1)>> \o split(SubSeq(s, i + 1, Len(s)), c)

\* str.split(c, 1) of a string that contains c: cut at the first c only
split_1(s, c) ==
  LET i == find(s, c)
  IN <<SubSeq(s, 1, i - 1), SubSeq(s, i + 1, Len(s))>>

\* the characters str.strip() removes
Whitespace == {" ", "\n", "\t"}

RECURSIVE lstrip(_)
lstrip(s) == IF s # <<>> /\ Head(s) \in Whitespace THEN lstrip(Tail(s)) ELSE s

RECURSIVE rstrip(_)
rstrip(s) ==
  IF s # <<>> /\ s[Len(s)] \in Whitespace THEN rstrip(SubSeq(s, 1, Len(s) - 1)) ELSE s

strip(s) == rstrip(lstrip(s))

IsDigits(s) == s # <<>> /\ \A i \in 1..Len(s) : s[i] \in Digits

RECURSIVE DecValue(_)
DecValue(s) ==
  IF s = <<>> THEN 0
  ELSE 10 * DecValue(SubSeq(s, 1, Len(s) - 1)) + DigitVal(s[Len(s)])

\* int(s) on a stripped string: an optional sign, then decimal digits;
\* anything else is a ValueError (ok = FALSE)
int(s) ==
  IF IsDigits(s) THEN [ok |-> TRUE, value |-> DecValue(s)]
  ELSE IF Len(s) > 1 /\ s[1] = "-" /\ IsDigits(Tail(s))
       THEN [ok |-> TRUE, value |-> 0 - DecValue(Tail(s))]
       ELSE [ok |-> FALSE, value |-> 0]

\* a range that stops one short
range_excl(start, stop) == [i \in 1..(stop - start - 1) |-> start + i - 1]

\* list(range(start, stop))
range(start, stop) == [i \in 1..(stop - start) |-> start + i - 1]

(***************************************************************************)
(* cli.py parse_pages                                                      *)
(***************************************************************************)
\* return v (a list)
Return(v) ==
  [kind |-> "return", is_none |-> FALSE, value |-> v, exc |-> "", msg |-> "", part |-> 0]

\* return None
ReturnNone ==
  [kind |-> "return", is_none |-> TRUE, value |-> <<>>, exc |-> "", msg |-> "", part |-> 0]

\* raise click.BadParameter(msg) while handling the part-th field
BadParameter(msg, part) ==
  [kind |-> "raise", is_none |-> FALSE, value |-> <<>>, exc |-> "click.BadParameter",
   msg |-> msg, part |-> part]

\* parse_pages has not been called
NotCalled ==
  [kind |-> "none", is_none |-> FALSE, value |-> <<>>, exc |-> "", msg |-> "", part |-> 0]

\* the body of the for loop for one field: the pages it adds, or the raise
parse_part(raw, k) ==
  LET part == strip(raw)
  IN IF part = <<>> THEN BadParameter("Empty page specification", k)
     ELSE IF find(part, "-") # 0
     THEN LET halves == split_1(part, "-")
              start_str == strip(halves[1])
              end_str == strip(halves[2])
              start == int(start_str)
              end == int(end_str)
          IN IF start_str = <<>> \/ end_str = <<>>
             THEN BadParameter("Invalid page range", k)
             ELSE IF ~start.ok \/ ~end.ok
             THEN BadParameter("Non-integer page range", k)
             ELSE IF end.value < start.value
             THEN BadParameter("Invalid page range (end < start)", k)
             ELSE Return(range(start.value, end.value + 1))
     ELSE LET n == int(part)
          IN IF ~n.ok THEN BadParameter("Invalid page number", k)
             ELSE Return(<<n.value>>)

\* the for loop from the k-th field on, pages being the list built so far
RECURSIVE parse_loop(_, _, _)
parse_loop(parts, k, pages) ==
  IF k > Len(parts) THEN Return(pages)
  ELSE LET r == parse_part(parts[k], k)
       IN IF r.kind = "raise" THEN r
          ELSE parse_loop(parts, k + 1, pages \o r.value)

parse_pages(s) ==
  IF s = None \/ s = <<>> THEN ReturnNone
  ELSE parse_loop(split(s, ","), 1, <<>>)

(***************************************************************************)
(* The exception classes parse_pages and the formatters raise, each with   *)
(* its direct base class (click.exceptions and the built-ins)              *)
(***************************************************************************)
ExcBase(cls) ==
  CASE cls = "click.BadParameter" -> "click.UsageError"
    [] cls = "click.UsageError" -> "click.ClickException"
    [] cls = "click.ClickException" -> "Exception"
    [] cls = "ValueError" -> "Exception"
    [] cls = "IndexError" -> "Exception"
    [] cls = "OSError" -> "Exception"
    [] cls = "binascii.Error" -> "ValueError"
    [] cls = "Exception" -> "BaseException"
    [] cls = "SystemExit" -> "BaseException"
    [] OTHER -> "object"

\* isinstance(e, base) for an exception of class cls
RECURSIVE isinstance(_, _)
isinstance(cls, base) ==
  IF cls = base THEN TRUE
  ELSE IF cls \in {"BaseException", "object"} THEN FALSE
  ELSE isinstance(ExcBase(cls), base)

(***************************************************************************)
(* Python built-ins used by the formatters                                 *)
(***************************************************************************)
\* sep.join(parts)
RECURSIVE join(_, _)
join(sep, parts) ==
  IF parts = <<>> THEN <<>>
  ELSE IF Len(parts) = 1 THEN parts[1]
  ELSE parts[1] \o sep \o join(sep, Tail(parts))

DigitChar(d) ==
  CASE d = 0 -> "0" [] d = 1 -> "1" [] d = 2 -> "2" [] d = 3 -> "3" [] d = 4 -> "4"
    [] d = 5 -> "5" [] d = 6 -> "6" [] d = 7 -> "7" [] d = 8 -> "8" [] d = 9 -> "9"

\* str(n) of a non-negative int, as an f-string formats it
RECURSIVE str(_)
str(n) == IF n < 10 THEN <<DigitChar(n)>> ELSE str(n \div 10) \o <<DigitChar(n % 10)>>

\* s.replace(c, "")
RECURSIVE remove(_, _)
remove(s, c) ==
  IF s = <<>> THEN <<>>
  ELSE IF Head(s) = c THEN remove(Tail(s), c)
  ELSE <<Head(s)>> \o remove(Tail(s), c)

\* the value of a base64 digit; 64 for "=", 65 for a character outside the alphabet
B64Val(c) ==
  CASE c = "A" -> 0 [] c = "I" -> 8 [] c = "Q" -> 16 [] c = "U" -> 20
    [] c = "g" -> 32 [] c = "i" -> 34 [] c = "=" -> 64 [] OTHER -> 65

RECURSIVE B64Sextets(_)
B64Sextets(s) ==
  IF s = <<>> \/ B64Val(Head(s)) = 64 THEN <<>>
  ELSE IF B64Val(Head(s)) = 65 THEN B64Sextets(Tail(s))
  ELSE <<B64Val(Head(s))>> \o B64Sextets(Tail(s))

B64Pads(s) == Cardinality({i \in 1..Len(s) : s[i] = "="})

RECURSIVE B64Bytes(_)
B64Bytes(x) ==
  IF Len(x) < 2 THEN <<>>
  ELSE IF Len(x) = 2 THEN <<x[1] * 4 + x[2] \div 16>>
  ELSE IF Len(x) = 3 THEN <<x[1] * 4 + x[2] \div 16, (x[2] % 16) * 16 + x[3] \div 4>>
  ELSE <<x[1] * 4 + x[2] \div 16, (x[2] % 16) * 16 + x[3] \div 4, (x[3] % 4) * 64 + x[4]>>
       \o B64Bytes(SubSeq(x, 5, Len(x)))

\* base64.b64decode(s): characters outside the alphabet are discarded, the
\* digits before the padding are decoded, and a digit count that the padding
\* does not complete to a multiple of four raises binascii.Error
b64decode(s) ==
  LET x == B64Sextets(s)
      r == Len(x) % 4
  IN IF r = 1 \/ (r # 0 /\ B64Pads(s) < 4 - r)
     THEN [ok |-> FALSE, bytes |-> <<>>]
     ELSE [ok |-> TRUE, bytes |-> B64Bytes(x)]

(***************************************************************************)
(* The file system the formatters write to                                 *)
(***************************************************************************)
\* the content of a file: raw bytes, or a built PDF document (its flowables)
Bytes(b) == [kind |-> "bytes", bytes |-> b, flow |-> <<>>, text |-> <<>>]

PdfDoc(content) == [kind |-> "pdf", bytes |-> <<>>, flow |-> content, text |-> <<>>]

\* open(path, "wb") then write(b): the file is created or truncated
WriteFile(f, path, c) ==
  [f EXCEPT !.files = [p \in DOMAIN f.files \cup {path} |->
                         IF p = path THEN c ELSE f.files[p]]]

\* Path.mkdir(parents=True, exist_ok=True) raises OSError where a directory
\* cannot be made (a file of that name, no permission)
MkdirRaises(f, dir) == dir \in f.blocked

Mkdir(f, dir) == [f EXCEPT !.dirs = @ \cup {dir}]

\* open(path, "wb") raises OSError in a directory that cannot be written
OpenRaises(f, dir) == dir \in f.readonly

\* img_dir / img_filename
PathJoin(dir, name) == dir \o <<"/">> \o name

\* str(e) of the OSError of open()
OSErrorMessage == <<"E", "A", "C", "C", "E", "S">>

\* str(e) of the binascii.Error of b64decode()
B64ErrorMessage == <<"I", "n", "c", "o", "r", "r", "e", "c", "t", " ", "p", "a", "d", "d", "i", "n", "g">>

(***************************************************************************)
(* formatter.py: results of a formatter call                               *)
(***************************************************************************)
\* return text, the file system left as f
FmtReturn(text, f) == [kind |-> "return", value |-> text, exc |-> "", fs |-> f]

\* raise an exception of class cls, the file system left as f
FmtRaise(cls, f) == [kind |-> "raise", value |-> <<>>, exc |-> cls, fs |-> f]

FmtNotCalled(f) == [kind |-> "none", value |-> <<>>, exc |-> "", fs |-> f]

\* page.get("index", 0)
PageIndex(page) == IF page.has_index THEN page.index ELSE 0

(***************************************************************************)
(* formatter.py format_as_markdown                                         *)
(***************************************************************************)
\* f"page_{page_index}_image_{i}.png"
ImgFilename(page_index, i) == <<"p", "a", "g", "e", "_">> \o str(page_index) \o <<"_", "i", "m", "a", "g", "e", "_">> \o str(i) \o <<".", "p", "n", "g">>

\* f"\n![Image {i+1} from page {page_index+1}]({target})\n"
ImageLink(i, page_index, target) ==
  <<"\n", "!", "[", "I", "m", "a", "g", "e", " ">> \o str(i + 1) \o <<" ", "f", "r", "o", "m", " ", "p", "a", "g", "e", " ">> \o str(page_index + 1) \o <<"]", "(">>
    \o target \o <<")", "\n">>

\* f"\n[Error saving image: {str(e)}]\n"
SaveErrorMarker(message) == <<"\n", "[", "E", "r", "r", "o", "r", " ", "s", "a", "v", "i", "n", "g", " ", "i", "m", "a", "g", "e", ":", " ">> \o message \o <<"]", "\n">>

DataUri(img_data) == <<"d", "a", "t", "a", ":", "i", "m", "a", "g", "e", "/", "p", "n", "g", ";", "b", "a", "s", "e", "6", "4", ",">> \o img_data

\* the loop state: the pieces appended so far, the file system, and the class
\* of an exception that left the loop ("" while none has)
Loop(content, f, exc) == [content |-> content, fs |-> f, exc |-> exc]

\* lines 62-77: mkdir outside the try; open, b64decode and write inside it.
\* open(..., "wb") has created the empty file when b64decode raises.
md_save_image(st, image, i, page_index, out_dir) ==
  LET f1 == Mkdir(st.fs, out_dir)
      img_path == PathJoin(out_dir, ImgFilename(page_index, i))
      decoded == b64decode(image.image_base64)
  IN IF MkdirRaises(st.fs, out_dir) THEN Loop(st.content, st.fs, "OSError")
     ELSE IF OpenRaises(f1, out_dir)
     THEN Loop(Append(st.content, SaveErrorMarker(OSErrorMessage)), f1, "")
     ELSE IF ~decoded.ok
     THEN Loop(Append(st.content, SaveErrorMarker(B64ErrorMessage)),
               WriteFile(f1, img_path, Bytes(<<>>)), "")
     ELSE Loop(Append(st.content, ImageLink(i, page_index, img_path)),
               WriteFile(f1, img_path, Bytes(decoded.bytes)), "")

\* lines 58-81: for i, image in enumerate(images), from the 0-based index i on
RECURSIVE md_images(_, _, _, _, _)
md_images(st, images, i, page_index, out_dir) ==
  IF st.exc # "" \/ i >= Len(images) THEN st
  ELSE LET image == images[i + 1]
           st1 == IF out_dir # None /\ out_dir # <<>> /\ image.has_b64
                  THEN md_save_image(st, image, i, page_index, out_dir)
                  ELSE IF image.has_b64
                  THEN Loop(Append(st.content,
                                   ImageLink(i, page_index, DataUri(image.image_base64))),
                            st.fs, "")
                  ELSE st
       IN md_images(st1, images, i + 1, page_index, out_dir)

\* the loop with the images processed whatever include_images is
RECURSIVE md_pages_always_images(_, _, _, _, _)
md_pages_always_images(st, pages, k, incl, out_dir) ==
  IF st.exc # "" \/ k > Len(pages) THEN st
  ELSE LET page == pages[k]
           page_index == PageIndex(page)
           st1 == Loop(st.content \o <<<<"#", "#", " ", "P", "a", "g", "e", " ">> \o str(page_index + 1) \o <<"\n">>,
                                       page.markdown>>,
                       st.fs, "")
           st2 == IF page.has_images /\ page.images # <<>>
                  THEN md_images(st1, page.images, 0, page_index, out_dir)
                  ELSE st1
           st3 == IF st2.exc # "" THEN st2
                  ELSE Loop(Append(st2.content, <<"\n", "-", "-", "-", "\n">>), st2.fs, "")
       IN md_pages_always_images(st3, pages, k + 1, incl, out_dir)

\* lines 45-84: for page in pages, from the k-th page on
RECURSIVE md_pages(_, _, _, _, _)
md_pages(st, pages, k, incl, out_dir) ==
  IF st.exc # "" \/ k > Len(pages) THEN st
  ELSE LET page == pages[k]
           page_index == PageIndex(page)
           st1 == Loop(st.content \o <<<<"#", "#", " ", "P", "a", "g", "e", " ">> \o str(page_index + 1) \o <<"\n">>,
                                       page.markdown>>,
                       st.fs, "")
           st2 == IF incl /\ page.has_images /\ page.images # <<>>
                  THEN md_images(st1, page.images, 0, page_index, out_dir)
                  ELSE st1
           st3 == IF st2.exc # "" THEN st2
                  ELSE Loop(Append(st2.content, <<"\n", "-", "-", "-", "\n">>), st2.fs, "")
       IN md_pages(st3, pages, k + 1, incl, out_dir)

\* the pages looked at before the error field
format_as_markdown_pages_first(resp, incl, out_dir, f) ==
  IF ~resp.has_pages \/ resp.pages = <<>>
  THEN FmtReturn(<<"N", "o", " ", "c", "o", "n", "t", "e", "n", "t", " ", "f", "o", "u", "n", "d", " ", "i", "n", " ", "d", "o", "c", "u", "m", "e", "n", "t", ".">>, f)
  ELSE LET st == md_pages(Loop(<<>>, f, ""), resp.pages, 1, incl, out_dir)
       IN IF st.exc # "" THEN FmtRaise(st.exc, st.fs)
          ELSE IF resp.has_error
          THEN FmtReturn(<<"E", "r", "r", "o", "r", ":", " ">> \o resp.error, st.fs)
          ELSE FmtReturn(join(<<"\n">>, st.content), st.fs)

format_as_markdown(resp, incl, out_dir, f) ==
  IF resp.has_error THEN FmtReturn(<<"E", "r", "r", "o", "r", ":", " ">> \o resp.error, f)
  ELSE IF ~resp.has_pages \/ resp.pages = <<>>
  THEN FmtReturn(<<"N", "o", " ", "c", "o", "n", "t", "e", "n", "t", " ", "f", "o", "u", "n", "d", " ", "i", "n", " ", "d", "o", "c", "u", "m", "e", "n", "t", ".">>, f)
  ELSE LET st == md_pages(Loop(<<>>, f, ""), resp.pages, 1, incl, out_dir)
       IN IF st.exc # "" THEN FmtRaise(st.exc, st.fs)
          ELSE FmtReturn(join(<<"\n">>, st.content), st.fs)

(***************************************************************************)
(* formatter.py format_as_text                                             *)
(***************************************************************************)
\* only the '#' characters removed
text_strip_hash_only(s) == remove(s, "#")

\* line 115: page_content.replace("#", "").replace("*", "")
text_strip(s) == remove(remove(s, "#"), "*")

\* lines 108-119
RECURSIVE text_pages(_, _, _)
text_pages(text_content, pages, k) ==
  IF k > Len(pages) THEN text_content
  ELSE LET page == pages[k]
           page_index == PageIndex(page)
       IN text_pages(text_content \o <<<<"-", "-", "-", " ", "P", "a", "g", "e", " ">> \o str(page_index + 1) \o <<" ", "-", "-", "-", "\n">>,
                                       text_strip(page.markdown),
                                       <<"\n", "\n">>>>,
                     pages, k + 1)

format_as_text(resp, f) ==
  IF resp.has_error THEN FmtReturn(<<"E", "r", "r", "o", "r", ":", " ">> \o resp.error, f)
  ELSE IF ~resp.has_pages \/ resp.pages = <<>>
  THEN FmtReturn(<<"N", "o", " ", "c", "o", "n", "t", "e", "n", "t", " ", "f", "o", "u", "n", "d", " ", "i", "n", " ", "d", "o", "c", "u", "m", "e", "n", "t", ".">>, f)
  ELSE FmtReturn(join(<<"\n">>, text_pages(<<>>, resp.pages, 1)), f)

(***************************************************************************)
(* formatter.py format_as_pdf                                              *)
(***************************************************************************)
\* position of the first occurrence of sep in s, 0 when there is none
findstr(s, sep) ==
  LET here == {i \in 1..(Len(s) - Len(sep) + 1) : SubSeq(s, i, i + Len(sep) - 1) = sep}
  IN IF here = {} THEN 0 ELSE CHOOSE i \in here : \A j \in here : i <= j

\* s.split(sep) for a separator of any length
RECURSIVE splitstr(_, _)
splitstr(s, sep) ==
  LET i == findstr(s, sep)
  IN IF i = 0 THEN <<s>>
     ELSE <<SubSeq(s, 1, i - 1)>> \o splitstr(SubSeq(s, i + Len(sep), Len(s)), sep)

\* the flowables of the document
Paragraph(text, style) == [type |-> "Paragraph", text |-> text, style |-> style]

Spacer(height) == [type |-> "Spacer", text |-> <<>>, style |-> height]

RLImage(img_data) == [type |-> "Image", text |-> img_data, style |-> "proportional"]

\* the number of '#' characters s begins with
RECURSIVE LeadingHashes(_)
LeadingHashes(s) ==
  IF s # <<>> /\ Head(s) = "#" THEN 1 + LeadingHashes(Tail(s)) ELSE 0

\* lines 184-201 for one block: the flowables it adds; the while loop reads
\* para.strip()[header_level] past the end when the block is all '#'
pdf_block(st, para) ==
  LET stripped == strip(para)
      header_level == LeadingHashes(stripped)
      header_text == strip(SubSeq(stripped, header_level + 1, Len(stripped)))
  IN IF stripped # <<>> /\ Head(stripped) = "#"
     THEN IF header_level = Len(stripped) THEN Loop(st.content, st.fs, "IndexError")
          ELSE IF header_level = 1
          THEN Loop(Append(st.content, Paragraph(header_text, "Heading1")), st.fs, "")
          ELSE IF header_level = 2
          THEN Loop(Append(st.content, Paragraph(header_text, "Heading2")), st.fs, "")
          ELSE Loop(Append(st.content, Paragraph(header_text, "Heading3")), st.fs, "")
     ELSE Loop(st.content \o <<Paragraph(para, "Normal"), Spacer("0.1in")>>, st.fs, "")

RECURSIVE pdf_blocks(_, _, _)
pdf_blocks(st, paragraphs, n) ==
  IF st.exc # "" \/ n > Len(paragraphs) THEN st
  ELSE pdf_blocks(pdf_block(st, paragraphs[n]), paragraphs, n + 1)

\* PIL reads the bytes as a raster image when they begin with the PNG signature
IsRaster(b) == b # <<>> /\ b[1] = 137

\* lines 206-220: a failure to decode or to read one image is caught
RECURSIVE pdf_images(_, _, _, _)
pdf_images(st, images, i, page_index) ==
  IF i >= Len(images) THEN st
  ELSE LET image == images[i + 1]
           decoded == b64decode(image.image_base64)
           caption == <<"I", "m", "a", "g", "e", " ">> \o str(i + 1) \o <<" ", "f", "r", "o", "m", " ", "p", "a", "g", "e", " ">> \o str(page_index + 1)
           st1 == IF ~image.has_b64 THEN st
                  ELSE IF ~decoded.ok
                  THEN Loop(Append(st.content,
                                   Paragraph(<<"E", "r", "r", "o", "r", " ", "p", "r", "o", "c", "e", "s", "s", "i", "n", "g", " ", "i", "m", "a", "g", "e", ":", " ">> \o B64ErrorMessage,
                                             "Italic")),
                            st.fs, "")
                  ELSE IF ~IsRaster(decoded.bytes)
                  THEN Loop(Append(st.content,
                                   Paragraph(<<"E", "r", "r", "o", "r", " ", "p", "r", "o", "c", "e", "s", "s", "i", "n", "g", " ", "i", "m", "a", "g", "e", ":", " ">> \o <<"c", "a", "n", "n", "o", "t", " ", "i", "d", "e", "n", "t", "i", "f", "y", " ", "i", "m", "a", "g", "e", " ", "f", "i", "l", "e">>,
                                             "Italic")),
                            st.fs, "")
                  ELSE Loop(st.content \o <<Spacer("0.2in"), RLImage(decoded.bytes),
                                            Paragraph(caption, "Italic"), Spacer("0.2in")>>,
                            st.fs, "")
       IN pdf_images(st1, images, i + 1, page_index)

\* lines 173-223
RECURSIVE pdf_pages(_, _, _, _)
pdf_pages(st, pages, k, incl) ==
  IF st.exc # "" \/ k > Len(pages) THEN st
  ELSE LET page == pages[k]
           page_index == PageIndex(page)
           st1 == Loop(st.content \o <<Paragraph(<<"P", "a", "g", "e", " ">> \o str(page_index + 1), "PageHeader"),
                                       Spacer("0.2in")>>,
                       st.fs, "")
           st2 == pdf_blocks(st1, splitstr(page.markdown, <<"\n", "\n">>), 1)
           st3 == IF st2.exc = "" /\ incl /\ page.has_images /\ page.images # <<>>
                  THEN pdf_images(st2, page.images, 0, page_index)
                  ELSE st2
           st4 == IF st3.exc # "" THEN st3
                  ELSE Loop(Append(st3.content, Spacer("0.5in")), st3.fs, "")
       IN pdf_pages(st4, pages, k + 1, incl)

\* doc.build(content) before the checks of lines 140-145
format_as_pdf_build_first(resp, out_path, incl, f) ==
  IF resp.has_error \/ ~resp.has_pages \/ resp.pages = <<>>
  THEN FmtRaise("ValueError", WriteFile(f, out_path, PdfDoc(<<>>)))
  ELSE LET st == pdf_pages(Loop(<<>>, f, ""), resp.pages, 1, incl)
       IN IF st.exc # "" THEN FmtRaise(st.exc, st.fs)
          ELSE FmtReturn(<<>>, WriteFile(st.fs, out_path, PdfDoc(st.content)))

\* SimpleDocTemplate(out_path) opens nothing; doc.build(content), the last
\* statement, writes the file
format_as_pdf(resp, out_path, incl, f) ==
  IF resp.has_error THEN FmtRaise("ValueError", f)
  ELSE IF ~resp.has_pages \/ resp.pages = <<>> THEN FmtRaise("ValueError", f)
  ELSE LET st == pdf_pages(Loop(<<>>, f, ""), resp.pages, 1, incl)
       IN IF st.exc # "" THEN FmtRaise(st.exc, st.fs)
          ELSE FmtReturn(<<>>, WriteFile(st.fs, out_path, PdfDoc(st.content)))

(***************************************************************************)
(* Calls of the three formatters on sample results                         *)
(***************************************************************************)
\* images: base64 of b"A", of b"B", of the PNG signature byte, a string with
\* its padding missing, and an image without data
ImgA == [has_b64 |-> TRUE, image_base64 |-> <<"Q", "Q", "=", "=">>]

ImgB == [has_b64 |-> TRUE, image_base64 |-> <<"Q", "g", "=", "=">>]

ImgPng == [has_b64 |-> TRUE, image_base64 |-> <<"i", "Q", "=", "=">>]

ImgBad == [has_b64 |-> TRUE, image_base64 |-> <<"Q", "Q">>]

ImgNoData == [has_b64 |-> FALSE, image_base64 |-> <<>>]

\* a page dict; has_index and has_images say whether the key is present
Page(has_index, index, markdown, has_images, images) ==
  [has_index |-> has_index, index |-> index, markdown |-> markdown,
   has_images |-> has_images, images |-> images]

\* the values of the "images" key (the first is used for an absent key)
ImageLists == {<<>>, <<ImgA>>, <<ImgB>>, <<ImgNoData, ImgA>>, <<ImgBad, ImgB>>}

MdPages ==
  {Page(hi, ix, <<"x">>, hm, im) :
     hi \in BOOLEAN, ix \in {0, 1}, hm \in BOOLEAN, im \in ImageLists}

TextContents == {<<"!", "#", "[", "a", "]", "(", "b", ")">>, <<>>, <<"x">>, <<"#", " ", "x">>, <<"*", "x", "*", "#">>, <<"!", "[", "a", "]", "(", "b", ")">>, <<"!", "[", "a", "]", "(", "d", "a", "t", "a", ":", "i", "m", "a", "g", "e", "/", "p", "n", "g", ";", "b", "a", "s", "e", "6", "4", ",", "Q", "Q", "=", "=", ")">>}

TextPages ==
  {Page(hi, 1, c, hm, <<ImgA>>) : hi \in BOOLEAN, c \in TextContents, hm \in BOOLEAN}

PdfContents == {<<"x">>, <<"#", " ", "x">>, <<"#", "#", "x">>, <<"#", "#", "#", " ", "x">>, <<"#">>, <<"x", "\n", "\n", "#", " ", "y">>, <<" ", "#", "#", "\n">>}

PdfPages ==
  {Page(TRUE, 1, c, hm, <<ImgPng, ImgBad, ImgA>>) : c \in PdfContents, hm \in BOOLEAN}

\* a page is well formed when an absent key carries the placeholder value
WellFormedPage(p) ==
  /\ (~p.has_index => p.index = 0)
  /\ (~p.has_images => p.images = <<>>)

\* the response dicts over a set of pages: with or without "error", with or
\* without "pages", up to MaxPages pages
Responses(P) ==
  {[has_error |-> he, error |-> IF he THEN <<"X">> ELSE <<>>, has_pages |-> TRUE, pages |-> ps] :
     he \in BOOLEAN,
     ps \in {s \in SeqsUpTo({p \in P : WellFormedPage(p)}, MaxPages) : TRUE}}
  \cup
  {[has_error |-> he, error |-> IF he THEN <<"X">> ELSE <<>>, has_pages |-> FALSE, pages |-> <<>>] :
     he \in BOOLEAN}

NoResponse == [has_error |-> FALSE, error |-> <<>>, has_pages |-> FALSE, pages |-> <<>>]

ImgDir == <<"d">>

PdfPath == <<"o", ".", "p", "d", "f">>

NoFiles == [p \in {} |-> Bytes(<<>>)]

\* the file systems a formatter starts in: ImgDir absent, present, not
\* creatable, or present and not writable; a file at PdfPath or none
FileSystems ==
  {[dirs |-> {}, files |-> NoFiles, blocked |-> {}, readonly |-> {}],
   [dirs |-> {ImgDir}, files |-> NoFiles, blocked |-> {}, readonly |-> {}],
   [dirs |-> {}, files |-> NoFiles, blocked |-> {ImgDir}, readonly |-> {}],
   [dirs |-> {ImgDir}, files |-> NoFiles, blocked |-> {}, readonly |-> {ImgDir}],
   [dirs |-> {}, files |-> (PdfPath :> Bytes(<<1>>)), blocked |-> {}, readonly |-> {}]}

\* the command is not running
MainIdle ==
  /\ creds = [env |-> None, keyring |-> None, typed |-> <<>>]
  /\ api_key = None
  /\ format = "markdown"
  /\ output = None
  /\ remote = [upload |-> "none", ocr |-> "none", response |-> NoResponse]
  /\ net = <<>>
  /\ stdout = <<>>
  /\ stderr = <<>>
  /\ exit_code = Running
  /\ fatal = ""

InitFmt ==
  /\ pc = "call"
  /\ pages_str = None
  /\ parsed = NotCalled
  /\ \/ /\ op = "markdown"
        /\ ocr_response \in Responses(MdPages)
        /\ include_images \in BOOLEAN
        /\ output_dir \in {None, ImgDir}
        /\ fs \in {f \in FileSystems : DOMAIN f.files = {}}
     \/ /\ op = "text"
        /\ ocr_response \in Responses(TextPages)
        /\ include_images = TRUE
        /\ output_dir = None
        /\ fs \in {f \in FileSystems : f.dirs = {} /\ f.blocked = {}}
     \/ /\ op = "pdf"
        /\ ocr_response \in Responses(PdfPages)
        /\ include_images \in BOOLEAN
        /\ output_dir = None
        /\ fs \in {f \in FileSystems : f.dirs = {} /\ f.blocked = {}}
  /\ output_path = PdfPath
  /\ fs_at_call = fs
  /\ formatted = FmtNotCalled(fs)
  /\ MainIdle

Called(r) ==
  /\ pc' = "done"
  /\ formatted' = r
  /\ fs' = formatted'.fs
  /\ UNCHANGED <<pages_str, parsed, op, ocr_response, include_images, output_dir,
                 output_path, fs_at_call, mainVars>>

CallFormatAsMarkdown ==
  /\ pc = "call" /\ op = "markdown"
  /\ Called(format_as_markdown(ocr_response, include_images, output_dir, fs))

CallFormatAsText ==
  /\ pc = "call" /\ op = "text"
  /\ Called(format_as_text(ocr_response, fs))

CallFormatAsPdf ==
  /\ pc = "call" /\ op = "pdf"
  /\ Called(format_as_pdf(ocr_response, output_path, include_images, fs))

NextFmt == CallFormatAsMarkdown \/ CallFormatAsText \/ CallFormatAsPdf

SpecFmt == InitFmt /\ [][NextFmt]_vars

(***************************************************************************)
(* Calls of parse_pages on every page string up to MaxLen characters       *)
(***************************************************************************)
InitParse ==
  /\ pc = "call"
  /\ pages_str \in SeqsUpTo(PageChars, MaxLen) \cup {None}
  /\ parsed = NotCalled
  /\ op = "parse_pages"
  /\ ocr_response = NoResponse
  /\ include_images = FALSE
  /\ output_dir = None
  /\ output_path = None
  /\ fs = [dirs |-> {}, files |-> NoFiles, blocked |-> {}, readonly |-> {}]
  /\ fs_at_call = fs
  /\ formatted = FmtNotCalled(fs)
  /\ MainIdle

CallParsePages ==
  /\ pc = "call"
  /\ parsed' = parse_pages(pages_str)
  /\ pc' = "done"
  /\ UNCHANGED <<pages_str, op, ocr_response, include_images, output_dir, output_path,
                 fs, fs_at_call, formatted, mainVars>>

NextParse == CallParsePages

SpecParse == InitParse /\ [][NextParse]_vars

(***************************************************************************)
(* config.py: the API key                                                  *)
(***************************************************************************)
\* get_api_key: the environment variable when it is set and not empty,
\* otherwise the keyring entry (None when there is none)
get_api_key(c) == IF c.env # None /\ c.env # <<>> THEN c.env ELSE c.keyring

\* prompt_for_api_key: the key typed at the prompt, None when it is empty
prompt_for_api_key(c) == IF c.typed # <<>> THEN c.typed ELSE None

\* ensure_api_key: the key found, else the key typed at the prompt
ensure_api_key(c) ==
  LET found == get_api_key(c)
  IN IF found = None \/ found = <<>> THEN prompt_for_api_key(c) ELSE found

\* store_api_key, called by prompt_for_api_key for a typed key
credentials_after(c) ==
  LET found == get_api_key(c)
  IN IF (found = None \/ found = <<>>) /\ c.typed # <<>>
     THEN [c EXCEPT !.keyring = c.typed]
     ELSE c

(***************************************************************************)
(* api.py: the two requests of process_document                            *)
(***************************************************************************)
\* the POST to /v1/files of upload_file_to_mistral
UploadRequest == [url |-> "https://api.mistral.ai/v1/files", pages |-> NotCalled,
                  include_image_base64 |-> FALSE]

\* the POST to /v1/ocr: the payload carries "pages" unless pages is None
OcrRequest(pages, incl) ==
  [url |-> "https://api.mistral.ai/v1/ocr", pages |-> pages, include_image_base64 |-> incl]

\* lines 103-110: the JSON of a 200 reply; {"error": ...} for any other
\* status and for an exception of requests.post
ocr_result(r) ==
  IF r.ocr = "200" THEN r.response
  ELSE [has_error |-> TRUE, error |-> <<"E">>, has_pages |-> FALSE, pages |-> <<>>]

(***************************************************************************)
(* cli.py main                                                             *)
(***************************************************************************)
\* open(output, 'w') then write(formatted)
TextFile(s) == [kind |-> "text", bytes |-> <<>>, flow |-> <<>>, text |-> s]

\* click's standalone mode: a ClickException that leaves main is shown on
\* stderr and the process exits with the exception's exit_code, 2 for a
\* UsageError; any other exception is a traceback on stderr and status 1
click_exit_code(cls) == IF isinstance(cls, "click.UsageError") THEN 2 ELSE 1

\* line 171: a .pdf output path turns the default format into pdf
effective_format(fmt, out) ==
  IF out # None /\ out # <<>> /\ Len(out) >= 4
     /\ SubSeq(out, Len(out) - 3, Len(out)) = <<".", "p", "d", "f">> /\ fmt = "markdown"
  THEN "pdf" ELSE fmt

Exit(code) == pc' = "exit" /\ exit_code' = code

\* lines 146-149
MainEnsureApiKey ==
  /\ pc = "main"
  /\ api_key' = ensure_api_key(creds)
  /\ creds' = credentials_after(creds)
  /\ IF api_key' = None
     THEN /\ stdout' = Append(stdout, "No API key provided. Exiting.")
          /\ fatal' = "no_api_key"
          /\ Exit(1)
     ELSE /\ pc' = "parse"
          /\ UNCHANGED <<stdout, fatal, exit_code>>
  /\ UNCHANGED <<pages_str, parsed, op, ocr_response, include_images, output_dir,
                 output_path, fs, fs_at_call, formatted, format, output, remote, net,
                 stderr>>

\* line 152, and line 155 when parse_pages returns; the BadParameter of
\* parse_pages is raised outside the try of line 159 and leaves main
MainParsePages ==
  /\ pc = "parse"
  /\ parsed' = parse_pages(pages_str)
  /\ IF parsed'.kind = "raise"
     THEN /\ stderr' = Append(stderr, "Error: Invalid value")
          /\ fatal' = "invalid_pages"
          /\ Exit(click_exit_code(parsed'.exc))
          /\ UNCHANGED stdout
     ELSE /\ stdout' = Append(stdout, "Processing document")
          /\ pc' = "upload"
          /\ UNCHANGED <<stderr, fatal, exit_code>>
  /\ UNCHANGED <<pages_str, op, ocr_response, include_images, output_dir, output_path,
                 fs, fs_at_call, formatted, creds, api_key, format, output, remote, net>>

\* api.py lines 73-76 and 29-52, then cli.py lines 198-200 when no file id
\* comes back: process_document raises, main prints the error and exits
ProcessDocumentUpload ==
  /\ pc = "upload"
  /\ net' = Append(net, UploadRequest)
  /\ IF remote.upload = "200"
     THEN /\ pc' = "ocr"
          /\ UNCHANGED <<stdout, stderr, fatal, exit_code>>
     ELSE /\ stdout' = Append(stdout, "Error uploading file")
          /\ stderr' = Append(stderr, "Error: Failed to upload file")
          /\ fatal' = "upload_failed"
          /\ Exit(1)
  /\ UNCHANGED <<pages_str, parsed, op, ocr_response, include_images, output_dir,
                 output_path, fs, fs_at_call, formatted, creds, api_key, format, output,
                 remote>>

\* api.py lines 78-110 with the arguments of cli.py lines 161-167
ProcessDocumentOcr ==
  /\ pc = "ocr"
  /\ net' = Append(net, OcrRequest(parsed, include_images \/ output_dir # None))
  /\ ocr_response' = ocr_result(remote)
  /\ pc' = "format"
  /\ UNCHANGED <<pages_str, parsed, op, include_images, output_dir, output_path, fs,
                 fs_at_call, formatted, creds, api_key, format, output, remote, stdout,
                 stderr, fatal, exit_code>>

\* the formatter call of lines 175-195
main_format(fmt, out) ==
  IF fmt = "markdown" THEN format_as_markdown(ocr_response, include_images, output_dir, fs)
  ELSE IF fmt = "text" THEN format_as_text(ocr_response, fs)
  ELSE format_as_pdf(ocr_response, out, include_images, fs)

\* lines 170-200: sys.exit(1) for pdf without an output path; an exception of
\* the formatter is caught, printed to stderr, and the process exits with 1
MainFormat ==
  /\ pc = "format"
  /\ format' = effective_format(format, output)
  /\ op' = format'
  /\ IF format' = "pdf" /\ (output = None \/ output = <<>>)
     THEN /\ stderr' = Append(stderr, "PDF output requires an output file path.")
          /\ fatal' = "pdf_without_output"
          /\ Exit(1)
          /\ UNCHANGED <<formatted, fs>>
     ELSE /\ formatted' = main_format(format', output)
          /\ fs' = formatted'.fs
          /\ IF formatted'.kind = "raise"
             THEN /\ stderr' = Append(stderr, "Error: " \o formatted'.exc)
                  /\ fatal' = "formatter_exception"
                  /\ Exit(1)
             ELSE /\ pc' = "output"
                  /\ UNCHANGED <<stderr, fatal, exit_code>>
  /\ UNCHANGED <<pages_str, parsed, ocr_response, include_images, output_dir, output_path,
                 fs_at_call, creds, api_key, output, remote, net, stdout>>

\* lines 203-208, then the end of main
MainOutput ==
  /\ pc = "output"
  /\ IF format = "pdf"
     THEN UNCHANGED <<fs, stdout>>
     ELSE IF output # None /\ output # <<>>
     THEN /\ fs' = WriteFile(fs, output, TextFile(formatted.value))
          /\ stdout' = Append(stdout, "Output written to")
     ELSE /\ stdout' = Append(stdout, "formatted")
          /\ UNCHANGED fs
  /\ Exit(0)
  /\ UNCHANGED <<pages_str, parsed, op, ocr_response, include_images, output_dir,
                 output_path, fs_at_call, formatted, creds, api_key, format, output,
                 remote, net, stderr, fatal>>

\* the --pages strings given to the command
MainPageStrings == {None, <<"0">>, <<"1", ",", "0", "-", "1">>, <<"a">>, <<"1", "-">>, <<"1", ",", "a">>, <<"0", "-", "-", "0">>}

MainResponses ==
  {[has_error |-> FALSE, error |-> <<>>, has_pages |-> TRUE,
    pages |-> <<Page(TRUE, 0, <<"#", " ", "x">>, TRUE, <<ImgA>>)>>],
   [has_error |-> FALSE, error |-> <<>>, has_pages |-> TRUE, pages |-> <<>>]}

\* the behaviours of the service: the upload fails, or succeeds and the OCR
\* request gets a 200 reply, another status, or no reply at all
Remotes ==
  {[upload |-> "error", ocr |-> "none", response |-> NoResponse]}
  \cup {[upload |-> "200", ocr |-> o, response |-> NoResponse] : o \in {"status", "exception"}}
  \cup {[upload |-> "200", ocr |-> "200", response |-> r] : r \in MainResponses}

Init ==
  /\ pc = "main"
  /\ creds \in [env : {None, <<"k">>}, keyring : {None, <<"k">>}, typed : {<<>>, <<"k">>}]
  /\ api_key = None
  /\ pages_str \in MainPageStrings
  /\ parsed = NotCalled
  /\ format \in {"markdown", "text", "pdf"}
  /\ op = "main"
  /\ output \in {None, <<"o", ".", "m", "d">>, PdfPath}
  /\ output_path = output
  /\ include_images \in BOOLEAN
  /\ output_dir \in {None, ImgDir}
  /\ remote \in Remotes
  /\ ocr_response = NoResponse
  /\ fs \in {f \in FileSystems : DOMAIN f.files = {} /\ f.readonly = {} /\ f.dirs = {}}
  /\ fs_at_call = fs
  /\ formatted = FmtNotCalled(fs)
  /\ net = <<>>
  /\ stdout = <<>>
  /\ stderr = <<>>
  /\ exit_code = Running
  /\ fatal = ""

Next ==
  \/ MainEnsureApiKey
  \/ MainParsePages
  \/ ProcessDocumentUpload
  \/ ProcessDocumentOcr
  \/ MainFormat
  \/ MainOutput

Spec == Init /\ [][Next]_vars

(***************************************************************************)
(* The page-string grammar of the documentation, read position by         *)
(* position: tokens are the stretches between commas; a token is a run of *)
(* digits, or two runs of digits around one dash, with blanks allowed      *)
(* before, between and after                                               *)
(***************************************************************************)
Commas(s) == {i \in 1..Len(s) : s[i] = ","}

NTokens(s) == Cardinality(Commas(s)) + 1

\* position of the k-th comma; 0 before the first token, Len(s) + 1 after the last
KthComma(s, k) ==
  IF k = 0 THEN 0
  ELSE IF k > Cardinality(Commas(s)) THEN Len(s) + 1
  ELSE CHOOSE i \in Commas(s) : Cardinality({j \in Commas(s) : j < i}) = k - 1

Token(s, k) == SubSeq(s, KthComma(s, k - 1) + 1, KthComma(s, k) - 1)

RECURSIVE Pow10(_)
Pow10(n) == IF n = 0 THEN 1 ELSE 10 * Pow10(n - 1)

\* the number written by the digits tok[i..j]
RECURSIVE Numeral(_, _, _)
Numeral(tok, i, j) ==
  IF i > j THEN 0 ELSE DigitVal(tok[i]) * Pow10(j - i) + Numeral(tok, i + 1, j)

DigitRun(tok, i, j) == i <= j /\ \A n \in i..j : tok[n] \in Digits

Blank(tok, i, j) == \A n \in i..j : tok[n] = " "

Ascending(a, b) == [n \in 1..(b - a + 1) |-> a + n - 1]

\* the expansions the grammar gives a token: none when the token is malformed
TokenExpansions(tok) ==
  LET P == 1..Len(tok)
  IN {<<Numeral(tok, i, j)>> : <<i, j>> \in
        {q \in P \X P : /\ DigitRun(tok, q[1], q[2])
                        /\ Blank(tok, 1, q[1] - 1)
                        /\ Blank(tok, q[2] + 1, Len(tok))}}
     \cup
     {Ascending(Numeral(tok, q[1], q[2]), Numeral(tok, q[4], q[5])) : q \in
        {r \in P \X P \X P \X P \X P :
           /\ DigitRun(tok, r[1], r[2]) /\ r[2] < r[3] /\ tok[r[3]] = "-"
           /\ r[3] < r[4] /\ DigitRun(tok, r[4], r[5])
           /\ Blank(tok, 1, r[1] - 1) /\ Blank(tok, r[2] + 1, r[3] - 1)
           /\ Blank(tok, r[3] + 1, r[4] - 1) /\ Blank(tok, r[5] + 1, Len(tok))
           /\ Numeral(tok, r[1], r[2]) <= Numeral(tok, r[4], r[5])}}

ValidToken(tok) == TokenExpansions(tok) # {}

ValidPageString(s) ==
  /\ s # None
  /\ s # <<>>
  /\ \A k \in 1..NTokens(s) : ValidToken(Token(s, k))

Malformed(s) == s # None /\ s # <<>> /\ ~ValidPageString(s)

FirstOffending(s) ==
  CHOOSE k \in 1..NTokens(s) :
    ~ValidToken(Token(s, k)) /\ \A j \in 1..(k - 1) : ValidToken(Token(s, j))

\* the expansions of the tokens k, k+1, ... of a valid string, one after the other
RECURSIVE ManualEnumeration(_, _)
ManualEnumeration(s, k) ==
  IF k > NTokens(s) THEN <<>>
  ELSE (CHOOSE e \in TokenExpansions(Token(s, k)) : TRUE) \o ManualEnumeration(s, k + 1)

(***************************************************************************)
(* Properties of parse_pages (SpecParse)                                   *)
(***************************************************************************)
\* C1: on a valid page string parse_pages returns the tokens' expansions
\* concatenated in the order given, neither sorted nor de-duplicated; on None
\* and on the empty string it returns None.
C1_ParseValid ==
  pc = "done" =>
    /\ ValidPageString(pages_str) => parsed = Return(ManualEnumeration(pages_str, 1))
    /\ pages_str \in {None, <<>>} => parsed = ReturnNone

\* "1,0-1" has been parsed to [1, 0, 1]: order kept, the duplicate kept
C1_Witness ==
  /\ pc = "done"
  /\ pages_str = <<"1", ",", "0", "-", "1">>
  /\ parsed.kind = "return" /\ ~parsed.is_none
  /\ parsed.value = <<1, 0, 1>>

\* C2: on a malformed page string parse_pages raises the invalid-range error
\* at the first offending token and returns no list.
C2_ParseMalformedRaises ==
  (pc = "done" /\ Malformed(pages_str)) =>
    /\ parsed.kind = "raise"
    /\ parsed.exc = "click.BadParameter"
    /\ parsed.part = FirstOffending(pages_str)

\* C3: the error parse_pages raises on a malformed page string is a ValueError.
C3_RaisesValueError ==
  (pc = "done" /\ Malformed(pages_str) /\ parsed.kind = "raise") =>
    isinstance(parsed.exc, "ValueError")

(***************************************************************************)
(* Properties of the formatters (SpecFmt)                                  *)
(***************************************************************************)
Finished(o) == pc = "done" /\ op = o

HasContent(resp) == ~resp.has_error /\ resp.has_pages /\ resp.pages # <<>>

\* C4: with an error field X in the result, format_as_markdown and
\* format_as_text return exactly "Error: X", whatever the pages, the images,
\* include_images and output_dir are, and leave the file system as it was.
C4_ErrorOnly ==
  ((Finished("markdown") \/ Finished("text")) /\ ocr_response.has_error) =>
    /\ formatted.kind = "return"
    /\ formatted.value = <<"E", "r", "r", "o", "r", ":", " ">> \o ocr_response.error
    /\ fs = fs_at_call

\* format_as_markdown was given an error together with two pages that carry
\* images with data, include_images and an image directory
C4_Witness ==
  /\ Finished("markdown")
  /\ ocr_response.has_error
  /\ Len(ocr_response.pages) = 2
  /\ \A k \in 1..2 : ocr_response.pages[k].has_images
                      /\ ocr_response.pages[k].images = <<ImgA>>
  /\ include_images /\ output_dir = ImgDir
  /\ formatted.value = <<"E", "r", "r", "o", "r", ":", " ", "X">>
  /\ fs.dirs = {} /\ DOMAIN fs.files = {}

\* C5: format_as_pdf raises on a result with an error field, or with no pages,
\* and no file is created at output_path; a file already there is unchanged.
C5_PdfRejectsBeforeWriting ==
  (Finished("pdf") /\ ~HasContent(ocr_response)) =>
    /\ formatted.kind = "raise"
    /\ isinstance(formatted.exc, "ValueError")
    /\ fs = fs_at_call

\* format_as_pdf has raised on an error result that has pages, and the file
\* that was at output_path is still what it was
C5_Witness ==
  /\ Finished("pdf")
  /\ ocr_response.has_error /\ ocr_response.pages # <<>>
  /\ formatted.kind = "raise"
  /\ PdfPath \in DOMAIN fs.files /\ fs.files[PdfPath] = Bytes(<<1>>)

\* s has '#' or '*' in it
HasMarker(s) == \E n \in 1..Len(s) : s[n] \in {"#", "*"}

\* s without its '#' and '*' characters
Unmarked(s) == SelectSeq(s, LAMBDA c : c \notin {"#", "*"})

\* s has a Markdown image link ![..](..) on one line, or a data URI
HasImageRef(s) ==
  \/ \E i, j, k \in 1..Len(s) :
       /\ i + 1 < j /\ j + 1 < k
       /\ s[i] = "!" /\ s[i + 1] = "[" /\ s[j] = "]" /\ s[j + 1] = "(" /\ s[k] = ")"
       /\ \A n \in i..k : s[n] # "\n"
  \/ findstr(s, <<"d", "a", "t", "a", ":">>) # 0

\* C6 as stated: the text of a result with pages has no '#', no '*' and no
\* image reference, whatever the pages' content and images are.
C6_TextNeverHasImageRef ==
  (Finished("text") /\ HasContent(ocr_response)) =>
    /\ formatted.kind = "return"
    /\ ~HasMarker(formatted.value)
    /\ ~HasImageRef(formatted.value)

\* C6 amended: the text of a result with pages has no '#' and no '*', and has
\* an image reference only where a page's content, its '#' and '*' removed,
\* has one: nothing is emitted for the pages' images.
C6_TextStripsMarkersAddsNoImage ==
  (Finished("text") /\ HasContent(ocr_response)) =>
    /\ formatted.kind = "return"
    /\ ~HasMarker(formatted.value)
    /\ HasImageRef(formatted.value) =>
         \E k \in 1..Len(ocr_response.pages) :
           HasImageRef(Unmarked(ocr_response.pages[k].markdown))

\* a page with '#' and '*' in its content and an image with data has been
\* formatted as text
C6_Witness ==
  /\ Finished("text")
  /\ HasContent(ocr_response)
  /\ ocr_response.pages[1].markdown = <<"*", "x", "*", "#">>
  /\ ocr_response.pages[1].has_images
  /\ formatted.value = <<"-", "-", "-", " ", "P", "a", "g", "e", " ", "2", " ", "-", "-", "-", "\n", "\n", "x", "\n", "\n", "\n">>

\* the images with data of the k-th page, as 0-based positions
WithData(page) ==
  IF page.has_images THEN {i \in 0..(Len(page.images) - 1) : page.images[i + 1].has_b64}
  ELSE {}

\* C7: after format_as_markdown has saved the images of a result, the file
\* page_{index}_image_{i}.png of every image with decodable data holds that
\* image's decoded bytes, also when pages have equal or no index values.
C7_ImageRoundTrip ==
  (/\ Finished("markdown") /\ HasContent(ocr_response)
   /\ include_images /\ output_dir = ImgDir
   /\ ImgDir \notin fs_at_call.blocked \cup fs_at_call.readonly) =>
    \A k \in 1..Len(ocr_response.pages) :
      \A i \in WithData(ocr_response.pages[k]) :
        LET page == ocr_response.pages[k]
            decoded == b64decode(page.images[i + 1].image_base64)
            path == PathJoin(ImgDir, ImgFilename(PageIndex(page), i))
        IN decoded.ok =>
             /\ path \in DOMAIN fs.files
             /\ fs.files[path] = Bytes(decoded.bytes)

\* the images of the result whose saving fails in the file system f
RECURSIVE FailedSaves(_, _, _)
FailedSaves(pages, k, f) ==
  IF k > Len(pages) THEN 0
  ELSE Cardinality({i \in WithData(pages[k]) :
                      \/ ImgDir \in f.blocked \cup f.readonly
                      \/ ~b64decode(pages[k].images[i + 1].image_base64).ok})
       + FailedSaves(pages, k + 1, f)

\* how often sub occurs in s
Occurrences(s, sub) ==
  Cardinality({i \in 1..(Len(s) - Len(sub) + 1) : SubSeq(s, i, i + Len(sub) - 1) = sub})

\* C8: in format_as_markdown with an image directory, an image that cannot be
\* saved (directory not creatable, file not writable, data not decodable)
\* gives the marker "[Error saving image: ...]" and the call still returns.
C8_SaveFailureNonFatal ==
  (/\ Finished("markdown") /\ HasContent(ocr_response)
   /\ include_images /\ output_dir = ImgDir) =>
    /\ formatted.kind = "return"
    /\ Occurrences(formatted.value, <<"[", "E", "r", "r", "o", "r", " ", "s", "a", "v", "i", "n", "g", " ", "i", "m", "a", "g", "e", ":", " ">>)
         = FailedSaves(ocr_response.pages, 1, fs_at_call)

\* the pieces of seqs, one after the other
RECURSIVE Flatten(_)
Flatten(seqs) == IF seqs = <<>> THEN <<>> ELSE Head(seqs) \o Flatten(Tail(seqs))

\* the reference for the i-th image (0-based) of a page: a link to the saved
\* file when a directory is given, else a data URI
ExpectedReference(page, i) ==
  IF output_dir # None
  THEN ImageLink(i, PageIndex(page), PathJoin(output_dir, ImgFilename(PageIndex(page), i)))
  ELSE ImageLink(i, PageIndex(page), DataUri(page.images[i + 1].image_base64))

\* the same, with the marker in its place where the image cannot be saved:
\* the directory is not writable, or the data does not decode
ExpectedReferenceOrMarker(page, i) ==
  IF output_dir # None /\ output_dir \in fs_at_call.readonly
  THEN SaveErrorMarker(OSErrorMessage)
  ELSE IF output_dir # None /\ ~b64decode(page.images[i + 1].image_base64).ok
  THEN SaveErrorMarker(B64ErrorMessage)
  ELSE ExpectedReference(page, i)

\* heading, raw content, one piece per image with data when images are
\* included (Ref gives the piece), separator
ExpectedPagePieces(page, Ref(_, _)) ==
  <<<<"#", "#", " ", "P", "a", "g", "e", " ">> \o str(PageIndex(page) + 1) \o <<"\n">>, page.markdown>>
  \o (IF include_images /\ page.has_images
      THEN Flatten([n \in 1..Len(page.images) |->
                      IF page.images[n].has_b64 THEN <<Ref(page, n - 1)>> ELSE <<>>])
      ELSE <<>>)
  \o <<<<"\n", "-", "-", "-", "\n">>>>

\* the pieces of all pages in page order, a newline between two pieces
ExpectedMarkdown(pages, Ref(_, _)) ==
  LET pieces == Flatten([k \in 1..Len(pages) |-> ExpectedPagePieces(pages[k], Ref)])
  IN Flatten([n \in 1..Len(pieces) |->
                IF n = 1 THEN pieces[n] ELSE <<"\n">> \o pieces[n]])

HashRun(s) ==
  CHOOSE n \in 0..Len(s) : /\ \A j \in 1..n : s[j] = "#"
                           /\ n = Len(s) \/ s[n + 1] # "#"

\* the style of a heading of a level: 1 and 2 have their own, 3 and more share one
HeadingStyle(level) ==
  IF level = 1 THEN "Heading1" ELSE IF level = 2 THEN "Heading2" ELSE "Heading3"

\* what a block is rendered as: a heading when its stripped text begins with
\* '#', with the text after the run of '#' as its text, else a body paragraph
ExpectedBlock(block) ==
  LET t == strip(block)
  IN IF HashRun(t) >= 1
     THEN Paragraph(strip(SubSeq(t, HashRun(t) + 1, Len(t))), HeadingStyle(HashRun(t)))
     ELSE Paragraph(block, "Normal")

\* the blocks of all pages, in order
ExpectedBlocks(pages) ==
  Flatten([k \in 1..Len(pages) |->
             LET blocks == splitstr(pages[k].markdown, <<"\n", "\n">>)
             IN [n \in 1..Len(blocks) |-> ExpectedBlock(blocks[n])]])

IsBlockParagraph(flowable) ==
  /\ flowable.type = "Paragraph"
  /\ flowable.style \in {"Heading1", "Heading2", "Heading3", "Normal"}

\* a block of the page content is made only of '#' characters
HasHashOnlyBlock(pages) ==
  \E k \in 1..Len(pages) :
    LET blocks == splitstr(pages[k].markdown, <<"\n", "\n">>)
    IN \E n \in 1..Len(blocks) :
         strip(blocks[n]) # <<>> /\ HashRun(strip(blocks[n])) = Len(strip(blocks[n]))

\* C12: format_as_pdf renders every block of page content whose stripped text
\* begins with '#' as a heading of the level given by the count of leading '#'
\* (own styles for 1 and 2, one style for 3 and more) with the text after the
\* run as heading text, and every other block as a body paragraph; a block
\* made only of '#' included, and computing the level never raises.
C12_PdfHeadingLevels ==
  (Finished("pdf") /\ HasContent(ocr_response)) =>
    /\ formatted.kind = "return"
    /\ PdfPath \in DOMAIN fs.files
    /\ SelectSeq(fs.files[PdfPath].flow, IsBlockParagraph) = ExpectedBlocks(ocr_response.pages)

(***************************************************************************)
(* Properties of the command (Spec)                                        *)
(***************************************************************************)
\* a fatal condition of the run: one that ended it early, or a --pages string
\* the grammar rejects
FatalCondition == fatal # "" \/ Malformed(pages_str)

\* C9: a run with a fatal condition (no API key, malformed --pages, pdf
\* without an output path, failed upload, formatter exception) prints to
\* stderr and exits with status 1; every other run exits with status 0.
C9_FatalExitsOneOnStderr ==
  pc = "exit" =>
    IF FatalCondition THEN exit_code = 1 /\ stderr # <<>> ELSE exit_code = 0

\* C10: in a run with a malformed --pages string no request is sent, no
\* formatter runs and no file is written.
C10_MalformedPagesBeforeNetwork ==
  Malformed(pages_str) =>
    /\ net = <<>>
    /\ formatted.kind = "none"
    /\ fs = fs_at_call

====
